---- MODULE Spec2Model ----
(***************************************************************************)
(* Model of frontend/src/App.js (DocumentIntelligence component).          *)
(*                                                                         *)
(* Text is a sequence of one-character strings, so that the JavaScript     *)
(* string operations the component uses (split on a regular expression,    *)
(* trim, toLowerCase, replace, includes, slice, join) are computed         *)
(* character by character.                                                 *)
(*                                                                         *)
(* React state is modelled with its closure semantics: an event handler    *)
(* reads the state of the render in which the event fires; the code that   *)
(* runs later in the same closure (after an await, in reader.onload, in    *)
(* the setTimeout callback) still reads the values captured then, while    *)
(* functional updates (setChatHistory(prev => ...)) read the current       *)
(* state.                                                                  *)
(***************************************************************************)
EXTENDS Integers, Sequences, FiniteSets, TLC

----------------------------------------------------------------------------
(* JavaScript string primitives                                            *)

\* null and undefined
Null == [null |-> TRUE]

\* Characters matched by \s in the regular expressions of the component.
WhiteSpace == {" ", "\n", "\t"}

\* Characters matched by [.!?].
SentenceEnd == {".", "!", "?"}

\* Characters matched by \d.
Digits == {"0", "1", "2", "3", "4", "5", "6", "7", "8", "9"}

UpperCase == <<"A", "B", "C", "D", "E", "F", "G", "H", "I", "J", "K", "L", "M",
               "N", "O", "P", "Q", "R", "S", "T", "U", "V", "W", "X", "Y", "Z">>

LowerCase == <<"a", "b", "c", "d", "e", "f", "g", "h", "i", "j", "k", "l", "m",
               "n", "o", "p", "q", "r", "s", "t", "u", "v", "w", "x", "y", "z">>

LowerLetters == {LowerCase[i] : i \in 1..Len(LowerCase)}

ToLowerChar(c) ==
    IF \E i \in 1..Len(UpperCase) : UpperCase[i] = c
    THEN LowerCase[CHOOSE i \in 1..Len(UpperCase) : UpperCase[i] = c]
    ELSE c

\* String.prototype.toLowerCase
ToLowerCase(s) == [i \in 1..Len(s) |-> ToLowerChar(s[i])]

\* str.slice(0, n) and arr.slice(0, n)
Slice(s, n) == SubSeq(s, 1, IF Len(s) < n THEN Len(s) ELSE n)

\* Length of the maximal run of characters of D in s that starts at i.
RunLength(s, i, D) ==
    CHOOSE k \in 0..(Len(s) + 1 - i) :
        /\ \A j \in i..(i + k - 1) : s[j] \in D
        /\ i + k <= Len(s) => s[i + k] \notin D

\* Length of the maximal run of characters of D in s that ends at the end.
RunLengthAtEnd(s, D) ==
    CHOOSE k \in 0..Len(s) :
        /\ \A j \in (Len(s) - k + 1)..Len(s) : s[j] \in D
        /\ k < Len(s) => s[Len(s) - k] \notin D

TrimStart(s) == SubSeq(s, RunLength(s, 1, WhiteSpace) + 1, Len(s))

TrimEnd(s) == SubSeq(s, 1, Len(s) - RunLengthAtEnd(s, WhiteSpace))

\* String.prototype.trim
Trim(s) == TrimEnd(TrimStart(s))

\* String.prototype.includes: w occurs in s as a substring (the empty
\* string occurs in every string).
Includes(s, w) ==
    \E i \in 0..(Len(s) - Len(w)) : SubSeq(s, i + 1, i + Len(w)) = w

\* The first place from i on where a run of at least min characters of D
\* starts, Len(s) + 1 when there is none.
NextMatch(s, i, D, min) ==
    LET starts == {j \in i..Len(s) : RunLength(s, j, D) >= min}
    IN  IF starts = {} THEN Len(s) + 1
        ELSE CHOOSE j \in starts : \A k \in starts : j <= k

\* String.prototype.split on the regular expression [D]{min,}: the pieces
\* between the maximal runs of at least min characters of D.  A run at the
\* start or the end of s leaves an empty piece there, and a string without
\* such a run (the empty string too) is returned as its only piece.
RECURSIVE SplitFrom(_, _, _, _)
SplitFrom(s, i, D, min) ==
    LET j == NextMatch(s, i, D, min) IN
    IF j > Len(s) THEN <<SubSeq(s, i, Len(s))>>
    ELSE <<SubSeq(s, i, j - 1)>> \o SplitFrom(s, j + RunLength(s, j, D), D, min)

Split(s, D, min) == SplitFrom(s, 1, D, min)

\* Array.prototype.join
RECURSIVE Join(_, _)
Join(pieces, sep) ==
    IF pieces = <<>> THEN <<>>
    ELSE IF Len(pieces) = 1 THEN pieces[1]
    ELSE pieces[1] \o sep \o Join(Tail(pieces), sep)

\* .filter(s => s.trim().length > 0)
NonBlank(pieces) == SelectSeq(pieces, LAMBDA p : Len(Trim(p)) > 0)

\* .filter(w => w.length > 0)
NonEmpty(pieces) == SelectSeq(pieces, LAMBDA p : Len(p) > 0)

\* content.split(/[.!?]+/).filter(s => s.trim().length > 0)
Sentences(text) == NonBlank(Split(text, SentenceEnd, 1))

\* The number an element is sorted by: b[1] - a[1] on the [word, count]
\* entries of wordFreq, b.score - a.score on the scored sentences.
SortKey(e) == IF "count" \in DOMAIN e THEN e.count ELSE e.score

\* Array.prototype.sort((a, b) => key(b) - key(a)): descending key, stable
\* (elements with equal keys keep their order in the array).
RECURSIVE InsertDesc(_, _)
InsertDesc(sorted, e) ==
    IF sorted = <<>> THEN <<e>>
    ELSE IF SortKey(Head(sorted)) >= SortKey(e)
         THEN <<Head(sorted)>> \o InsertDesc(Tail(sorted), e)
         ELSE <<e>> \o sorted

RECURSIVE SortDesc(_)
SortDesc(arr) ==
    IF arr = <<>> THEN <<>>
    ELSE InsertDesc(SortDesc(SubSeq(arr, 1, Len(arr) - 1)), arr[Len(arr)])

----------------------------------------------------------------------------
(* performDocumentAnalysis                                                 *)

DigitValue(c) == CHOOSE d \in 0..9 : ToString(d) = c

\* a < b for two strings of digits of the same length.
RECURSIVE DigitsLess(_, _)
DigitsLess(a, b) ==
    /\ a # <<>>
    /\ \/ DigitValue(Head(a)) < DigitValue(Head(b))
       \/ Head(a) = Head(b) /\ DigitsLess(Tail(a), Tail(b))

\* Number(a) < Number(b) for two canonical decimal numerals.
NumeralLess(a, b) ==
    Len(a) < Len(b) \/ (Len(a) = Len(b) /\ DigitsLess(a, b))

\* 2^32 - 1, the first integer that is not an array index.
IndexLimit == <<"4", "2", "9", "4", "9", "6", "7", "2", "9", "5">>

\* A property key that is an array index: the canonical decimal numeral of
\* an integer below 2^32 - 1.
IsArrayIndex(key) ==
    /\ key # <<>>
    /\ \A i \in 1..Len(key) : key[i] \in Digits
    /\ (Len(key) > 1 => key[1] # "0")
    /\ NumeralLess(key, IndexLimit)

\* word.toLowerCase().replace(/[^a-z0-9]/g, '')
Clean(word) ==
    SelectSeq(ToLowerCase(word), LAMBDA c : c \in LowerLetters \cup Digits)

\* wordFreq[clean] = (wordFreq[clean] || 0) + 1 on the object wordFreq, kept
\* as its properties in the order of their creation.
Increment(wordFreq, clean) ==
    IF \E i \in 1..Len(wordFreq) : wordFreq[i].word = clean
    THEN [i \in 1..Len(wordFreq) |->
            IF wordFreq[i].word = clean
            THEN [wordFreq[i] EXCEPT !.count = @ + 1]
            ELSE wordFreq[i]]
    ELSE Append(wordFreq, [word |-> clean, count |-> 1])

\* words.forEach(word => { ... if (clean.length > 3) ... })
RECURSIVE WordFreq(_)
WordFreq(words) ==
    IF words = <<>> THEN <<>>
    ELSE LET before == WordFreq(SubSeq(words, 1, Len(words) - 1))
             clean  == Clean(words[Len(words)])
         IN  IF Len(clean) > 3 THEN Increment(before, clean) ELSE before

\* The array-index keys of an object in ascending numeric order.
RECURSIVE InsertIndexKey(_, _)
InsertIndexKey(sorted, e) ==
    IF sorted = <<>> THEN <<e>>
    ELSE IF NumeralLess(Head(sorted).word, e.word)
         THEN <<Head(sorted)>> \o InsertIndexKey(Tail(sorted), e)
         ELSE <<e>> \o sorted

RECURSIVE IndexKeysAscending(_)
IndexKeysAscending(props) ==
    IF props = <<>> THEN <<>>
    ELSE InsertIndexKey(IndexKeysAscending(Tail(props)), Head(props))

\* Object.entries(obj): the array-index keys first, in ascending numeric
\* order, then the other string keys in the order of their creation.
ObjectEntries(obj) ==
    IndexKeysAscending(SelectSeq(obj, LAMBDA e : IsArrayIndex(e.word)))
    \o SelectSeq(obj, LAMBDA e : ~IsArrayIndex(e.word))

\* .slice(0, 10) of the sorted entries
TopWordsLimit == 10

\* Words per minute of readingTime.
WordsPerMinute == 200

\* (n / d).toFixed(1): "NaN" for 0/0, "Infinity" for n/0 with n > 0, and
\* otherwise the quotient rounded to tenths (a tie, n/d = k + 0.05, needs d
\* to be a multiple of 4 and is then exact in binary below d = 20, where
\* toFixed takes the larger neighbour).
ToFixed1(n, d) ==
    IF d = 0
    THEN [kind |-> IF n = 0 THEN "NaN" ELSE "Infinity", tenths |-> 0]
    ELSE [kind |-> "number", tenths |-> (20 * n + d) \div (2 * d)]

\* Math.ceil(n / d) for n >= 0, d > 0
Ceil(n, d) == (n + d - 1) \div d

performDocumentAnalysis(text) ==
    LET sentences  == Sentences(text)
        words      == NonEmpty(Split(text, WhiteSpace, 1))
        paragraphs == NonBlank(Split(text, {"\n"}, 2))
        topWords   == Slice(SortDesc(ObjectEntries(WordFreq(words))), TopWordsLimit)
    IN  [sentenceCount       |-> Len(sentences),
         wordCount           |-> Len(words),
         paragraphCount      |-> Len(paragraphs),
         avgWordsPerSentence |-> ToFixed1(Len(words), Len(sentences)),
         topWords            |-> topWords,
         readingTime         |-> Ceil(Len(words), WordsPerMinute)]

\* Bytes per KB in doc.size.
BytesPerKB == 1024

\* (n / 1024).toFixed(2), in hundredths (a tie needs n to be a multiple of
\* 128 and is exact in binary).
ToFixed2KB(n) == (200 * n + BytesPerKB) \div (2 * BytesPerKB)

\* The document record reader.onload builds for the text of a file read at
\* time now (Date.now() and new Date() in milliseconds).
NewDocument(now, name, text) ==
    [id         |-> now,
     name       |-> name,
     content    |-> text,
     uploadDate |-> now,
     wordCount  |-> Len(Split(text, WhiteSpace, 1)),
     size       |-> ToFixed2KB(Len(text)),
     analysis   |-> performDocumentAnalysis(text)]

----------------------------------------------------------------------------
(* extractRelevantContext and generateAnswer                               *)

\* .slice(0, 5) of the scored sentences and of the fallback sentences
ContextLimit == 5

\* queryWords.forEach(word => { if (lowerSentence.includes(word)) score += 1 })
RECURSIVE Score(_, _)
Score(lowerSentence, queryWords) ==
    IF queryWords = <<>> THEN 0
    ELSE (IF Includes(lowerSentence, Head(queryWords)) THEN 1 ELSE 0)
         + Score(lowerSentence, Tail(queryWords))

\* query.toLowerCase().split(/\s+/)
QueryWords(query) == Split(ToLowerCase(query), WhiteSpace, 1)

ScoredSentences(sentences, queryWords) ==
    [i \in 1..Len(sentences) |->
        [sentence |-> Trim(sentences[i]),
         score    |-> Score(ToLowerCase(sentences[i]), queryWords)]]

extractRelevantContext(content, query) ==
    LET sentences == Sentences(content)
        scored    == ScoredSentences(sentences, QueryWords(query))
        kept      == Slice(SortDesc(SelectSeq(scored, LAMBDA e : e.score > 0)),
                           ContextLimit)
        relevantSentences == [i \in 1..Len(kept) |-> kept[i].sentence]
    IN  IF Len(relevantSentences) > 0
        THEN Join(relevantSentences, <<".", " ">>)
        ELSE Join(Slice(sentences, ContextLimit), <<".", " ">>)

\* context.match(/\d+/g): the maximal runs of digits, or null (here the
\* empty sequence) when there is none.
RECURSIVE DigitRunsFrom(_, _)
DigitRunsFrom(s, i) ==
    LET j == NextMatch(s, i, Digits, 1) IN
    IF j > Len(s) THEN <<>>
    ELSE LET r == RunLength(s, j, Digits)
         IN  <<SubSeq(s, j, j + r - 1)>> \o DigitRunsFrom(s, j + r)

MatchDigits(s) == DigitRunsFrom(s, 1)

\* context.split('.')[0]: the text before the first "."
BeforeFirstDot(s) ==
    LET dots == {i \in 1..Len(s) : s[i] = "."}
    IN  IF dots = {} THEN s
        ELSE SubSeq(s, 1, (CHOOSE i \in dots : \A k \in dots : i <= k) - 1)

\* .slice(0, 3) of the sentences of the context
AnswerSentences == 3

\* numbers.slice(0, 5)
NumbersLimit == 5

SummaryPrefix ==
    <<"H", "e", "r", "e", "'", "s", " ", "a", " ", "s", "u", "m", "m", "a",
      "r", "y", " ", "b", "a", "s", "e", "d", " ", "o", "n", " ", "t", "h",
      "e", " ", "d", "o", "c", "u", "m", "e", "n", "t", ":", " ">>

NumbersPrefix ==
    <<"B", "a", "s", "e", "d", " ", "o", "n", " ", "t", "h", "e", " ", "d",
      "o", "c", "u", "m", "e", "n", "t", ",", " ", "I", " ", "f", "o", "u",
      "n", "d", " ", "t", "h", "e", " ", "f", "o", "l", "l", "o", "w", "i",
      "n", "g", " ", "n", "u", "m", "b", "e", "r", "s", ":", " ">>

DefinitionFallback ==
    <<"I", " ", "f", "o", "u", "n", "d", " ", "s", "o", "m", "e", " ", "r",
      "e", "l", "e", "v", "a", "n", "t", " ", "i", "n", "f", "o", "r", "m",
      "a", "t", "i", "o", "n", " ", "i", "n", " ", "t", "h", "e", " ", "d",
      "o", "c", "u", "m", "e", "n", "t", ".">>

DefaultPrefix ==
    <<"B", "a", "s", "e", "d", " ", "o", "n", " ", "t", "h", "e", " ", "d",
      "o", "c", "u", "m", "e", "n", "t", ":", " ">>

Str_summar ==
    <<"s", "u", "m", "m", "a", "r">>

Str_how_many ==
    <<"h", "o", "w", " ", "m", "a", "n", "y">>

Str_count ==
    <<"c", "o", "u", "n", "t">>

Str_what_is ==
    <<"w", "h", "a", "t", " ", "i", "s">>

Str_define ==
    <<"d", "e", "f", "i", "n", "e">>

\* generateAnswer with the 'what is'/'define' test ahead of the others.
generateAnswer_DefinitionFirst(context, query) ==
    LET queryLower == ToLowerCase(query)
        sentences  == Sentences(context)
        numbers    == MatchDigits(context)
    IN  IF Includes(queryLower, Str_what_is) \/ Includes(queryLower, Str_define)
        THEN IF sentences # <<>> /\ sentences[1] # <<>>
             THEN Trim(sentences[1]) \o <<".">>
             ELSE DefinitionFallback
        ELSE IF Includes(queryLower, Str_summar)
        THEN SummaryPrefix
             \o Join(Slice(sentences, AnswerSentences), <<".", " ">>) \o <<".">>
        ELSE IF /\ Includes(queryLower, Str_how_many) \/ Includes(queryLower, Str_count)
                /\ numbers # <<>>
        THEN NumbersPrefix \o Join(Slice(numbers, NumbersLimit), <<",", " ">>)
             \o <<".", " ">> \o BeforeFirstDot(context) \o <<".">>
        ELSE DefaultPrefix
             \o Join(Slice(sentences, AnswerSentences), <<".", " ">>) \o <<".">>

\* generateAnswer with a counting query that finds no numbers answered by
\* the default reply at once, the 'what is'/'define' test skipped.
generateAnswer_CountToDefault(context, query) ==
    LET queryLower == ToLowerCase(query)
        sentences  == Sentences(context)
        numbers    == MatchDigits(context)
    IN  IF Includes(queryLower, Str_summar)
        THEN SummaryPrefix
             \o Join(Slice(sentences, AnswerSentences), <<".", " ">>) \o <<".">>
        ELSE IF Includes(queryLower, Str_how_many) \/ Includes(queryLower, Str_count)
        THEN IF numbers # <<>>
             THEN NumbersPrefix \o Join(Slice(numbers, NumbersLimit), <<",", " ">>)
                  \o <<".", " ">> \o BeforeFirstDot(context) \o <<".">>
             ELSE DefaultPrefix
                  \o Join(Slice(sentences, AnswerSentences), <<".", " ">>) \o <<".">>
        ELSE IF Includes(queryLower, Str_what_is) \/ Includes(queryLower, Str_define)
        THEN IF sentences # <<>> /\ sentences[1] # <<>>
             THEN Trim(sentences[1]) \o <<".">>
             ELSE DefinitionFallback
        ELSE DefaultPrefix
             \o Join(Slice(sentences, AnswerSentences), <<".", " ">>) \o <<".">>

generateAnswer(context, query) ==
    LET queryLower == ToLowerCase(query)
        sentences  == Sentences(context)
        numbers    == MatchDigits(context)
    IN  IF Includes(queryLower, Str_summar)
        THEN SummaryPrefix
             \o Join(Slice(sentences, AnswerSentences), <<".", " ">>) \o <<".">>
        ELSE IF /\ Includes(queryLower, Str_how_many) \/ Includes(queryLower, Str_count)
                /\ numbers # <<>>
        THEN NumbersPrefix \o Join(Slice(numbers, NumbersLimit), <<",", " ">>)
             \o <<".", " ">> \o BeforeFirstDot(context) \o <<".">>
        ELSE IF Includes(queryLower, Str_what_is) \/ Includes(queryLower, Str_define)
        THEN IF sentences # <<>> /\ sentences[1] # <<>>
             THEN Trim(sentences[1]) \o <<".">>
             ELSE DefinitionFallback
        ELSE DefaultPrefix
             \o Join(Slice(sentences, AnswerSentences), <<".", " ">>) \o <<".">>

----------------------------------------------------------------------------
(* The component: state, event handlers and their asynchronous parts       *)

VARIABLES
    documents,      \* useState([]): the document collection
    selectedDoc,    \* useState(null): the active document record
    query,          \* useState(''): the text of the query input
    chatHistory,    \* useState([]): the turns of the chat
    isProcessing,   \* useState(false)
    storage,        \* the value window.storage holds under 'documents-list'
    loading,        \* loadStoredData is awaiting window.storage.get
    reads,          \* FileReader reads in progress, each with its closure
    saves,          \* saveDocuments calls awaited, each with its closure
    timers,         \* setTimeout callbacks scheduled, each with its closure
    now,            \* Date.now()
    rejected,       \* history: the last call of handleQuery was rejected
    call            \* a direct call of one of the pure functions

vars == <<documents, selectedDoc, query, chatHistory, isProcessing, storage,
          loading, reads, saves, timers, now, rejected, call>>

session == <<documents, selectedDoc, query, chatHistory, isProcessing,
             storage, loading, reads, saves, timers, now, rejected>>

Str_Cats_purr ==
    <<"C", "a", "t", "s", " ", "p", "u", "r", "r", ".", " ", "D", "o", "g",
      "s", " ", "b", "a", "r", "k", ".">>

Str_Fish_swim ==
    <<"F", "i", "s", "h", " ", "s", "w", "i", "m", ".">>

Str_cats ==
    <<"c", "a", "t", "s">>

UploadedPrefix ==
    <<"D", "o", "c", "u", "m", "e", "n", "t", " ", "\"">>

UploadedSuffix ==
    <<"\"", " ", "u", "p", "l", "o", "a", "d", "e", "d", " ", "s", "u",
      "c", "c", "e", "s", "s", "f", "u", "l", "l", "y", "!", " ", "I", "'",
      "v", "e", " ", "a", "n", "a", "l", "y", "z", "e", "d", " ", "i", "t",
      " ", "a", "n", "d", " ", "I", "'", "m", " ", "r", "e", "a", "d", "y",
      " ", "t", "o", " ", "a", "n", "s", "w", "e", "r", " ", "y", "o", "u",
      "r", " ", "q", "u", "e", "s", "t", "i", "o", "n", "s", ".">>

ChattingPrefix ==
    <<"N", "o", "w", " ", "c", "h", "a", "t", "t", "i", "n", "g", " ", "w",
      "i", "t", "h", " ", "\"">>

ChattingSuffix ==
    <<"\"", ".", " ", "A", "s", "k", " ", "m", "e", " ", "a", "n", "y",
      "t", "h", "i", "n", "g", "!">>

\* context.slice(0, 200)
ExcerptLimit == 200

\* The files the user picks, and the texts typed into the query input.
Files ==
    {[name |-> <<"a">>, content |-> Str_Cats_purr],
     [name |-> <<"b">>, content |-> Str_Fish_swim]}

TypedQueries == {<<>>, <<" ">>, Str_cats}

\* The lists a previous session may have left in window.storage.
StoredLists == {<<NewDocument(0, <<"b">>, Str_Fish_swim)>>}

\* Bounds of the model.
MaxUploads == 2
MaxChat == 3
MaxTimers == 2
MaxSaves == 1

NoCall == [fn |-> "none"]

RemoveAt(seq, i) == SubSeq(seq, 1, i - 1) \o SubSeq(seq, i + 1, Len(seq))

\* JSON.stringify(docs) and JSON.parse(value): every field of a document is
\* a string, a finite number, an array or a plain object of such (the result
\* of toFixed is a string), so the stored text is kept as the list it
\* denotes.
JSONStringify(docs) == [json |-> docs]

JSONParse(value) == value.json

Init ==
    /\ documents = <<>>
    /\ selectedDoc = Null
    /\ query = <<>>
    /\ chatHistory = <<>>
    /\ isProcessing = FALSE
    /\ storage \in {Null} \cup {JSONStringify(l) : l \in StoredLists}
    /\ loading = TRUE
    /\ reads = <<>>
    /\ saves = <<>>
    /\ timers = <<>>
    /\ now = 1
    /\ rejected = FALSE
    /\ call = NoCall

\* useEffect(() => { loadStoredData() }, []): the awaited get resolves.
loadStoredData ==
    /\ loading
    /\ loading' = FALSE
    /\ documents' = IF storage # Null THEN JSONParse(storage) ELSE documents
    /\ UNCHANGED <<selectedDoc, query, chatHistory, isProcessing, storage,
                   reads, saves, timers, now, rejected, call>>

\* The chat panel with the query input can be brought into view: it is
\* rendered when activeTab === 'chat' && selectedDoc, and the tab buttons
\* switch to the upload and library tabs at any time and to the chat tab
\* whenever a document is selected.  The tab in view is therefore not kept
\* in the state (the setActiveTab calls of the handlers have nothing to
\* set): the upload and library handlers are always within reach, those of
\* the chat panel whenever selectedDoc is set.
ChatPanelShown == selectedDoc # Null

\* onChange of the query input
setQuery(text) ==
    /\ ChatPanelShown
    /\ text # query
    /\ query' = text
    /\ UNCHANGED <<documents, selectedDoc, chatHistory, isProcessing,
                   storage, loading, reads, saves, timers, now, rejected,
                   call>>

\* onChange of the file input (rendered in the upload tab), up to
\* reader.readAsText(file); reader.onload keeps this render's documents.
handleFileUpload(file) ==
    /\ now + Len(reads) <= MaxUploads
    /\ IF file = Null
       THEN UNCHANGED <<isProcessing, reads>>
       ELSE /\ isProcessing' = TRUE
            /\ reads' = Append(reads, [file |-> file, documents |-> documents])
    /\ UNCHANGED <<documents, selectedDoc, query, chatHistory, storage,
                   loading, saves, timers, now, rejected, call>>

\* reader.onload up to the await of saveDocuments(newDocs)
readerOnload(i) ==
    LET r       == reads[i]
        doc     == NewDocument(now, r.file.name, r.file.content)
        newDocs == Append(r.documents, doc)
    IN  /\ documents' = newDocs
        /\ saves' = Append(saves, [kind |-> "upload", docs |-> newDocs, doc |-> doc])
        /\ reads' = RemoveAt(reads, i)
        /\ now' = now + 1
        /\ UNCHANGED <<selectedDoc, query, chatHistory, isProcessing,
                       storage, loading, timers, rejected, call>>

readerOnerror(i) ==
    /\ isProcessing' = FALSE
    /\ reads' = RemoveAt(reads, i)
    /\ UNCHANGED <<documents, selectedDoc, query, chatHistory, storage,
                   loading, saves, timers, now, rejected, call>>

\* saveDocuments(docs): the value window.storage holds once the awaited set
\* has resolved (the store is taken to accept every write).
saveDocuments(docs) == JSONStringify(docs)

SystemTurn(text) == [type |-> "system", message |-> text]

\* reader.onload after the await
uploadSaved(i) ==
    LET s == saves[i] IN
    /\ s.kind = "upload"
    /\ storage' = saveDocuments(s.docs)
    /\ selectedDoc' = s.doc
    /\ chatHistory' = <<SystemTurn(UploadedPrefix \o s.doc.name \o UploadedSuffix)>>
    /\ isProcessing' = FALSE
    /\ saves' = RemoveAt(saves, i)
    /\ UNCHANGED <<documents, query, loading, reads, timers, now, rejected,
                   call>>

\* The Chat button of a library entry
selectDocument(i) ==
    /\ selectedDoc' = documents[i]
    /\ chatHistory' = <<SystemTurn(ChattingPrefix \o documents[i].name \o ChattingSuffix)>>
    /\ UNCHANGED <<documents, query, isProcessing, storage, loading, reads,
                   saves, timers, now, rejected, call>>

\* deleteDocument(docId) from the delete button of a library entry, up to
\* the await of saveDocuments(newDocs); the rest keeps this render's
\* selectedDoc.
deleteDocument(docId) ==
    LET newDocs == SelectSeq(documents, LAMBDA d : d.id # docId) IN
    /\ documents' = newDocs
    /\ saves' = Append(saves, [kind |-> "delete", docs |-> newDocs,
                               docId |-> docId, selectedDoc |-> selectedDoc])
    /\ UNCHANGED <<selectedDoc, query, chatHistory, isProcessing, storage,
                   loading, reads, timers, now, rejected, call>>

\* deleteDocument after the await
deleteSaved(i) ==
    LET s == saves[i] IN
    /\ s.kind = "delete"
    /\ storage' = saveDocuments(s.docs)
    /\ IF s.selectedDoc # Null /\ s.selectedDoc.id = s.docId
       THEN selectedDoc' = Null /\ chatHistory' = <<>>
       ELSE UNCHANGED <<selectedDoc, chatHistory>>
    /\ saves' = RemoveAt(saves, i)
    /\ UNCHANGED <<documents, query, isProcessing, loading, reads, timers,
                   now, rejected, call>>

\* handleQuery with the guard !query in place of !query.trim().
handleQuery_NoTrim ==
    IF query = <<>> \/ selectedDoc = Null
    THEN /\ rejected' = TRUE
         /\ UNCHANGED <<chatHistory, isProcessing, timers>>
    ELSE /\ chatHistory' = Append(chatHistory, [type |-> "user", message |-> query])
         /\ isProcessing' = TRUE
         /\ timers' = Append(timers, [selectedDoc |-> selectedDoc, query |-> query])
         /\ rejected' = FALSE

\* handleQuery up to setTimeout; the callback keeps this render's query and
\* selectedDoc.
handleQuery ==
    IF Trim(query) = <<>> \/ selectedDoc = Null
    THEN /\ rejected' = TRUE
         /\ UNCHANGED <<chatHistory, isProcessing, timers>>
    ELSE /\ chatHistory' = Append(chatHistory, [type |-> "user", message |-> query])
         /\ isProcessing' = TRUE
         /\ timers' = Append(timers, [selectedDoc |-> selectedDoc, query |-> query])
         /\ rejected' = FALSE

\* onKeyPress of the query input with the Enter key
keyPressEnter ==
    /\ ChatPanelShown
    /\ Len(chatHistory) < MaxChat /\ Len(timers) < MaxTimers
    /\ handleQuery
    /\ UNCHANGED <<documents, selectedDoc, query, storage, loading, reads,
                   saves, now, call>>

\* onClick of the Search button, disabled={!query.trim() || isProcessing}
clickSearch ==
    /\ ChatPanelShown
    /\ ~(Trim(query) = <<>> \/ isProcessing)
    /\ Len(chatHistory) < MaxChat /\ Len(timers) < MaxTimers
    /\ handleQuery
    /\ UNCHANGED <<documents, selectedDoc, query, storage, loading, reads,
                   saves, now, call>>

\* The setTimeout callback with the whole context as the excerpt, not
\* context.slice(0, 200).
timeoutCallback_WholeContext ==
    /\ timers # <<>>
    /\ LET t       == Head(timers)
           context == extractRelevantContext(t.selectedDoc.content, t.query)
           answer  == generateAnswer(context, t.query)
           aiMessage == [type    |-> "ai",
                         message |-> answer,
                         context |-> context \o <<".", ".", ".">>]
       IN  chatHistory' = Append(chatHistory, aiMessage)
    /\ isProcessing' = FALSE
    /\ query' = <<>>
    /\ timers' = Tail(timers)
    /\ UNCHANGED <<documents, selectedDoc, storage, loading, reads, saves,
                   now, rejected, call>>

\* The setTimeout callback of handleQuery; timers of equal delay run in the
\* order they were set.
timeoutCallback ==
    /\ timers # <<>>
    /\ LET t       == Head(timers)
           context == extractRelevantContext(t.selectedDoc.content, t.query)
           answer  == generateAnswer(context, t.query)
           aiMessage == [type    |-> "ai",
                         message |-> answer,
                         context |-> Slice(context, ExcerptLimit) \o <<".", ".", ".">>]
       IN  chatHistory' = Append(chatHistory, aiMessage)
    /\ isProcessing' = FALSE
    /\ query' = <<>>
    /\ timers' = Tail(timers)
    /\ UNCHANGED <<documents, selectedDoc, storage, loading, reads, saves,
                   now, rejected, call>>

Next ==
    \/ loadStoredData
    \/ \E text \in TypedQueries : setQuery(text)
    \/ \E file \in Files \cup {Null} : handleFileUpload(file)
    \/ Len(saves) < MaxSaves /\ \E i \in 1..Len(reads) : readerOnload(i)
    \/ \E i \in 1..Len(reads) : readerOnerror(i)
    \/ \E i \in 1..Len(saves) : uploadSaved(i)
    \/ \E i \in 1..Len(documents) : selectDocument(i)
    \/ Len(saves) < MaxSaves /\ \E i \in 1..Len(documents) : deleteDocument(documents[i].id)
    \/ \E i \in 1..Len(saves) : deleteSaved(i)
    \/ keyPressEnter
    \/ clickSearch
    \/ timeoutCallback

Spec == Init /\ [][Next]_vars

\* The upload and library tabs alone, with up to MaxWrites calls of
\* saveDocuments awaited at once; the awaited writes resolve in any order.
MaxWrites == 2

NextLibrary ==
    \/ loadStoredData
    \/ \E file \in Files : handleFileUpload(file)
    \/ Len(saves) < MaxWrites /\ \E i \in 1..Len(reads) : readerOnload(i)
    \/ \E i \in 1..Len(saves) : uploadSaved(i)
    \/ Len(saves) < MaxWrites /\ \E i \in 1..Len(documents) : deleteDocument(documents[i].id)
    \/ \E i \in 1..Len(saves) : deleteSaved(i)

SpecLibrary == Init /\ [][NextLibrary]_vars

\* The chat with one uploaded document: the state reader.onload leaves when
\* the upload of a file has completed, and from there the handlers of the
\* chat panel and of the library.  One of the files is long enough for a
\* retrieved context of more than 200 characters.
Str_Housecats_sleep ==
    <<"D", "o", "m", "e", "s", "t", "i", "c", "a", "t", "e", "d", " ", "h",
      "o", "u", "s", "e", "c", "a", "t", "s", " ", "s", "l", "e", "e", "p",
      " ", "t", "h", "r", "o", "u", "g", "h", "o", "u", "t", " ", "d", "a",
      "y", "l", "i", "g", "h", "t", ".", " ">>

ChatFiles ==
    {[name |-> <<"a">>, content |-> Str_Cats_purr],
     [name |-> <<"c">>,
      content |-> Str_Housecats_sleep \o Str_Housecats_sleep
                  \o Str_Housecats_sleep \o Str_Housecats_sleep
                  \o Str_Housecats_sleep]}

InitChat ==
    \E file \in ChatFiles :
        LET doc == NewDocument(1, file.name, file.content) IN
        /\ documents = <<doc>>
        /\ selectedDoc = doc
        /\ query = <<>>
        /\ chatHistory = <<SystemTurn(UploadedPrefix \o file.name \o UploadedSuffix)>>
        /\ isProcessing = FALSE
        /\ storage = saveDocuments(<<doc>>)
        /\ loading = FALSE
        /\ reads = <<>>
        /\ saves = <<>>
        /\ timers = <<>>
        /\ now = 2
        /\ rejected = FALSE
        /\ call = NoCall

NextChat ==
    \/ \E text \in TypedQueries : setQuery(text)
    \/ \E i \in 1..Len(documents) : selectDocument(i)
    \/ Len(saves) < MaxSaves /\ \E i \in 1..Len(documents) : deleteDocument(documents[i].id)
    \/ \E i \in 1..Len(saves) : deleteSaved(i)
    \/ keyPressEnter
    \/ clickSearch
    \/ timeoutCallback

SpecChat == InitChat /\ [][NextChat]_vars

----------------------------------------------------------------------------
(* Direct calls of the pure functions on bounded sets of inputs            *)

\* The initial state of the component, before any event.
Mounted ==
    /\ documents = <<>>
    /\ selectedDoc = Null
    /\ query = <<>>
    /\ chatHistory = <<>>
    /\ isProcessing = FALSE
    /\ storage = Null
    /\ loading = TRUE
    /\ reads = <<>>
    /\ saves = <<>>
    /\ timers = <<>>
    /\ now = 1
    /\ rejected = FALSE

\* The concatenations of at most n pieces.
RECURSIVE Concatenations(_, _)
Concatenations(pieces, n) ==
    IF n = 0 THEN {<<>>}
    ELSE LET shorter == Concatenations(pieces, n - 1)
         IN  shorter \cup {t \o p : t \in shorter, p \in pieces}

\* Documents of at most MaxPieces pieces, and two longer ones with eleven
\* distinct keywords.
MaxPieces == 5

TextPieces ==
    {<<"c", "a", "t", "s">>, <<"D", "o", "g", "s", "!">>, <<"2", "0", "2", "4">>, <<" ">>, <<".">>, <<"\n">>}

Str_eleven_words ==
    <<"a", "l", "p", "h", "a", " ", "b", "r", "a", "v", "o", " ", "d", "e",
      "l", "t", "a", " ", "g", "a", "m", "m", "a", " ", "k", "a", "p", "p",
      "a", " ", "l", "a", "m", "b", "d", "a", " ", "s", "i", "g", "m", "a",
      " ", "t", "h", "e", "t", "a", " ", "o", "m", "e", "g", "a", " ", "z",
      "e", "t", "a", "1", " ", "b", "r", "a", "v", "o", " ", "2", "0", "2",
      "4", " ", "o", "m", "e", "g", "a", ".">>

Str_report_2024 ==
    <<"T", "h", "e", " ", "a", "n", "n", "u", "a", "l", " ", "r", "e", "p",
      "o", "r", "t", " ", "c", "o", "v", "e", "r", "s", " ", "2", "0", "2",
      "4", ".", " ", "R", "e", "v", "e", "n", "u", "e", " ", "g", "r", "e",
      "w", " ", "i", "n", " ", "2", "0", "2", "4", " ", "a", "n", "d", " ",
      "1", "9", "9", "9", " ", "w", "a", "s", " ", "w", "e", "a", "k",
      "\n", "\n", "r", "e", "p", "o", "r", "t", " ", "e", "n", "d", "s">>

Texts == Concatenations(TextPieces, MaxPieces) \cup {Str_eleven_words, Str_report_2024}

InitAnalysis ==
    /\ Mounted
    /\ call \in {[fn |-> "upload", text |-> t, ret |-> Null] : t \in Texts}

\* The record reader.onload builds for the text, with its analysis.
callUpload ==
    /\ call.fn = "upload" /\ call.ret = Null
    /\ call' = [call EXCEPT !.ret = NewDocument(now, <<"a">>, call.text)]
    /\ UNCHANGED session

SpecAnalysis == InitAnalysis /\ [][callUpload]_vars

\* Documents of at most MaxSentences sentences, with and without blanks
\* after the sentence end, and queries with and without a word of them.
MaxSentences == 6

SentencePieces ==
    {<<"C", "a", "t", "s", " ", "p", "u", "r", "r", ".">>,
     <<" ", "D", "o", "g", "s", " ", "b", "a", "r", "k", "!">>,
     <<"\n", " ", "C", "a", "t", "s", " ", "a", "n", "d", " ", "d", "o", "g", "s", "?">>}

ContextQueries ==
    {<<"z", "z", "z">>, <<" ", "z", "z", "z">>, <<"m", "i", "c", "e", "?", " ">>,
     <<"c", "a", "t", "s">>, <<"D", "o", "g", "s", " ", "c", "a", "t", "s">>, <<"a", " ", "c", "a", "t", "s", " ">>,
     <<"c", "a", "t", "s", " ">>, <<>>}

Contents == Concatenations(SentencePieces, MaxSentences)

InitContext ==
    /\ Mounted
    /\ call \in {[fn |-> "extractRelevantContext", content |-> c, query |-> q,
                  ret |-> Null] : c \in Contents, q \in ContextQueries}

callExtractRelevantContext ==
    /\ call.fn = "extractRelevantContext" /\ call.ret = Null
    /\ call' = [call EXCEPT !.ret = extractRelevantContext(call.content, call.query)]
    /\ UNCHANGED session

SpecContext == InitContext /\ [][callExtractRelevantContext]_vars

\* Contexts of at most MaxContextPieces pieces and queries of at most
\* MaxQueryPieces pieces, among them the keywords generateAnswer looks for.
MaxContextPieces == 3

MaxQueryPieces == 2

ContextPieces ==
    {<<"C", "a", "t", "s", " ", "p", "u", "r", "r">>, <<".", " ">>,
     <<" ", "4", "2", " ", "d", "o", "g", "s", " ", "i", "n", " ", "3", " ", "c", "a", "g", "e", "s">>, <<"7">>}

QueryPieces ==
    {<<"S", "u", "m", "m", "a", "r", "i", "z", "e", " ">>, <<"d", "e", "f", "i", "n", "e", " ">>,
     <<"c", "o", "u", "n", "t", " ">>, <<"H", "o", "w", " ", "m", "a", "n", "y", " ">>,
     <<"w", "h", "a", "t", " ", "i", "s", " ">>, <<"c", "a", "t", "s", " ">>}

AnswerContexts == Concatenations(ContextPieces, MaxContextPieces)

AnswerQueries == Concatenations(QueryPieces, MaxQueryPieces)

InitAnswer ==
    /\ Mounted
    /\ call \in {[fn |-> "generateAnswer", context |-> c, query |-> q,
                  ret |-> Null] : c \in AnswerContexts, q \in AnswerQueries}

callGenerateAnswer ==
    /\ call.fn = "generateAnswer" /\ call.ret = Null
    /\ call' = [call EXCEPT !.ret = generateAnswer(call.context, call.query)]
    /\ UNCHANGED session

SpecAnswer == InitAnswer /\ [][callGenerateAnswer]_vars

----------------------------------------------------------------------------
(* Properties                                                              *)

\* s consists of white space only (the empty string too).
IsBlank(s) == \A i \in 1..Len(s) : s[i] \in WhiteSpace

StartsWith(s, prefix) ==
    Len(prefix) <= Len(s) /\ SubSeq(s, 1, Len(prefix)) = prefix

TurnTypes == [i \in 1..Len(chatHistory) |-> chatHistory[i].type]

\* C1: queries are serialized per document session: in every reachable
\* state at most one query is pending, that is, at most one delayed
\* completion callback of handleQuery is outstanding, whichever of the
\* Search button and the Enter key submitted it.
C1_AtMostOneQueryPending == Len(timers) <= 1

\* C2: in no reachable state does selectedDoc refer to a document that is
\* not in the documents collection, or is chatHistory non-empty while no
\* document is selected.
C2_NoOrphanedSessionState ==
    /\ selectedDoc # Null =>
          \E i \in 1..Len(documents) : documents[i].id = selectedDoc.id
    /\ selectedDoc = Null => chatHistory = <<>>

\* C3: every 'ai' turn of the chat history answers a query put to the
\* currently selected document: a turn computed from the content of a
\* document that was active before never stands in the history of the
\* document selected afterwards.
C3_AnswersOfTheActiveDocument ==
    selectedDoc # Null =>
        \A i \in 1..Len(chatHistory) :
            chatHistory[i].type = "ai" =>
                \E q \in TypedQueries :
                    LET context == extractRelevantContext(selectedDoc.content, q)
                    IN  /\ chatHistory[i].message = generateAnswer(context, q)
                        /\ StartsWith(chatHistory[i].context,
                                      Slice(context, ExcerptLimit))

\* C4: every accepted query gets its 'user' turn and then exactly one 'ai'
\* turn right after it: while answers are outstanding only the last turns
\* may be unanswered 'user' turns, and once no answer is outstanding the
\* 'user' and 'ai' turns strictly alternate, each 'user' turn directly
\* followed by the 'ai' turn that answers its query.
C4_TurnsAlternate ==
    \A i \in 1..Len(chatHistory) :
        /\ TurnTypes[i] = "ai" => i > 1 /\ TurnTypes[i - 1] = "user"
        /\ TurnTypes[i] = "user" /\ timers = <<>> =>
              /\ i < Len(chatHistory)
              /\ TurnTypes[i + 1] = "ai"

\* C5: a call of handleQuery with an empty or white-space-only query, or
\* with no document selected, changes nothing: chatHistory, isProcessing,
\* query, selectedDoc and documents stay as they are and no callback is
\* scheduled.
C5_RejectedQueryChangesNothing ==
    [][(keyPressEnter \/ clickSearch) /\ (IsBlank(query) \/ selectedDoc = Null)
          => UNCHANGED <<chatHistory, isProcessing, query, selectedDoc,
                         documents, timers>>]_vars

\* A white-space-only query has been submitted and rejected.
C5_Witness ==
    rejected /\ selectedDoc # Null /\ query # <<>> /\ IsBlank(query)

\* The white-space-delimited non-empty tokens of a text start where a
\* character that is no white space follows the start or a white space.
TokenCount(text) ==
    Cardinality({i \in 1..Len(text) :
                    /\ text[i] \notin WhiteSpace
                    /\ i = 1 \/ text[i - 1] \in WhiteSpace})

\* C6: for every text whose sentenceCount is 0 the analysis has the
\* defined numeric avgWordsPerSentence 0, never NaN or Infinity; the empty
\* string has all counts 0, no top words and reading time 0.
C6_AverageDefinedWithoutSentences ==
    call.fn = "upload" /\ call.ret # Null =>
        LET a == call.ret.analysis IN
        /\ a.sentenceCount = 0 =>
              a.avgWordsPerSentence = [kind |-> "number", tenths |-> 0]
        /\ call.text = <<>> =>
              /\ a.sentenceCount = 0 /\ a.wordCount = 0 /\ a.paragraphCount = 0
              /\ a.topWords = <<>> /\ a.readingTime = 0

\* C7: the wordCount of a document record is the number of white-space-
\* delimited non-empty tokens of its content, and so equals the wordCount
\* of its analysis, for every content.
C7_WordCountIsTokenCount ==
    call.fn = "upload" /\ call.ret # Null =>
        /\ call.ret.wordCount = TokenCount(call.ret.content)
        /\ call.ret.wordCount = call.ret.analysis.wordCount

\* The cleaned tokens of length > 3 of a text, one per word, in the order
\* of the words.
KeptTokens(text) ==
    LET words == NonEmpty(Split(text, WhiteSpace, 1))
        clean == [i \in 1..Len(words) |-> Clean(words[i])]
    IN  SelectSeq(clean, LAMBDA t : Len(t) > 3)

\* The place at which a token is first met in the text.
FirstSeen(text, token) ==
    CHOOSE i \in 1..Len(KeptTokens(text)) :
        /\ KeptTokens(text)[i] = token
        /\ \A j \in 1..(i - 1) : KeptTokens(text)[j] # token

\* C8: topWords has min(10, number of distinct kept tokens) entries, in
\* descending order of count, and tokens of equal count stand in the order
\* in which the text first has them, tokens of digits included.
C8_TopWordsOrdered ==
    call.fn = "upload" /\ call.ret # Null =>
        LET top      == call.ret.analysis.topWords
            kept     == KeptTokens(call.text)
            distinct == Cardinality({kept[i] : i \in 1..Len(kept)})
        IN  /\ Len(top) = IF distinct < 10 THEN distinct ELSE 10
            /\ \A i, j \in 1..Len(top) :
                  i < j =>
                     \/ top[i].count > top[j].count
                     \/ /\ top[i].count = top[j].count
                        /\ FirstSeen(call.text, top[i].word)
                              < FirstSeen(call.text, top[j].word)

\* The query tokens that are not empty.
RealQueryTokens(q) == NonEmpty(QueryWords(q))

\* No sentence of the content has a real token of the query in it.
NoSentenceMatches(content, q) ==
    \A i \in 1..Len(Sentences(content)), k \in 1..Len(RealQueryTokens(q)) :
        ~Includes(ToLowerCase(Sentences(content)[i]), RealQueryTokens(q)[k])

\* The first five sentences, each trimmed, joined with ". ".
FirstSentencesTrimmed(content) ==
    LET first == Slice(Sentences(content), 5)
    IN  Join([i \in 1..Len(first) |-> Trim(first[i])], <<".", " ">>)

\* C9: whenever no sentence contains a real (non-empty) token of the
\* query, extractRelevantContext returns the first 5 sentences of the
\* document (all of them if there are fewer) in their order, each trimmed
\* and joined with ". ".
C9_FallbackIsFirstFiveTrimmed ==
    call.fn = "extractRelevantContext" /\ call.ret # Null
    /\ NoSentenceMatches(call.content, call.query)
        => call.ret = FirstSentencesTrimmed(call.content)

\* The branches of generateAnswer, told by the text they return.
IsSummaryAnswer(answer, context) ==
    answer = SummaryPrefix
             \o Join(Slice(Sentences(context), 3), <<".", " ">>) \o <<".">>

IsNumbersAnswer(answer) == StartsWith(answer, NumbersPrefix)

IsDefinitionAnswer(answer, context) ==
    IF Sentences(context) = <<>> THEN answer = DefinitionFallback
    ELSE answer = Trim(Sentences(context)[1]) \o <<".">>

IsDefaultAnswer(answer) == StartsWith(answer, DefaultPrefix)

AsksSummary(q) == Includes(ToLowerCase(q), Str_summar)

AsksCount(q) ==
    Includes(ToLowerCase(q), Str_how_many) \/ Includes(ToLowerCase(q), Str_count)

AsksDefinition(q) ==
    Includes(ToLowerCase(q), Str_what_is) \/ Includes(ToLowerCase(q), Str_define)

HasDigit(s) == \E i \in 1..Len(s) : s[i] \in Digits

C11_StoredListIsCurrent ==
    (~loading /\ reads = <<>> /\ saves = <<>>) =>
        IF storage = Null
        THEN documents = <<>>
        ELSE storage = JSONStringify(documents)


\* The numbers answer: up to the first 5 runs of digits of the context, then
\* the context up to its first period.
ListsNumbers(answer, context) ==
    answer = NumbersPrefix
             \o Join(Slice(MatchDigits(context), 5), <<",", " ">>)
             \o <<".", " ">> \o BeforeFirstDot(context) \o <<".">>

\* The default answer: the first 3 sentences of the context.
IsDefaultReply(answer, context) ==
    answer = DefaultPrefix
             \o Join(Slice(Sentences(context), 3), <<".", " ">>) \o <<".">>

\* A counting query (with 'how many' or 'count', without 'summar') has been
\* answered.
CountingAnswered ==
    /\ call.fn = "generateAnswer" /\ call.ret # Null
    /\ AsksCount(call.query) /\ ~AsksSummary(call.query)

\* C12 as stated: a counting query is answered with the numbers of a context
\* that has digits, and with the default reply when the context has none,
\* even when the query also contains 'what is' or 'define'.
C12_CountingFallsToDefault ==
    CountingAnswered =>
        IF HasDigit(call.context)
        THEN ListsNumbers(call.ret, call.context)
        ELSE IsDefaultReply(call.ret, call.context)

\* C12 amended: a counting query is answered with the numbers of a context
\* that has digits; when the context has none the query goes on to the
\* 'what is'/'define' test, and gets the definition answer if it passes it
\* and the default reply otherwise.
C12_CountingFallsThrough ==
    CountingAnswered =>
        IF HasDigit(call.context)
        THEN ListsNumbers(call.ret, call.context)
        ELSE IF AsksDefinition(call.query)
        THEN IsDefinitionAnswer(call.ret, call.context)
        ELSE IsDefaultReply(call.ret, call.context)

\* A counting query that also contains 'what is' or 'define' has been
\* answered, on a context without digits, by the first sentence.
C12_Witness ==
    /\ CountingAnswered
    /\ AsksDefinition(call.query)
    /\ ~HasDigit(call.context)
    /\ Sentences(call.context) # <<>>
    /\ call.ret = Trim(Sentences(call.context)[1]) \o <<".">>
    /\ ~IsDefaultAnswer(call.ret)


\* The scores of the sentences S: for each, the number of the tokens W of
\* the query that occur in the lowercased sentence, one point per token.
TokenScores(S, W) ==
    [i \in 1..Len(S) |->
        Cardinality({k \in 1..Len(W) : Includes(ToLowerCase(S[i]), W[k])})]

\* The sentences (by their position) that score above 0.
Scoring(score) == {i \in DOMAIN score : score[i] > 0}

\* The place of sentence i among the scoring ones: higher scores first, the
\* order of the document among equal scores.
RankOf(score, i) ==
    1 + Cardinality({j \in Scoring(score) :
            \/ score[j] > score[i]
            \/ score[j] = score[i] /\ j < i})

\* The scoring sentences of the first 5 places.
Selected(score) == {i \in Scoring(score) : RankOf(score, i) <= 5}

SelectedInOrder(S, score) ==
    [r \in 1..Cardinality(Selected(score)) |->
        Trim(S[CHOOSE i \in Selected(score) : RankOf(score, i) = r])]

\* The sentence has one of the words in it.
HasWord(sentence, words) ==
    \E k \in 1..Len(words) : Includes(ToLowerCase(sentence), words[k])

\* extractRelevantContext has been called with a query that has a word.
ContextExtracted ==
    /\ call.fn = "extractRelevantContext" /\ call.ret # Null
    /\ RealQueryTokens(call.query) # <<>>

\* C13 without its last clause: when a sentence scores above 0 the result
\* is the scoring sentences of the first 5 places, in the order of their
\* places, joined with ". ".
RankedSelectionReturned ==
    ContextExtracted =>
        LET S     == Sentences(call.content)
            score == TokenScores(S, QueryWords(call.query))
        IN  Scoring(score) # {} =>
                call.ret = Join(SelectedInOrder(S, score), <<".", " ">>)

\* C13: when a sentence scores above 0, extractRelevantContext returns only
\* sentences that score above 0, at most 5, by descending score and in the
\* order of the document among equal scores, and none of the sentences it
\* returns is without a word (a non-empty token) of the query.
C13_OnlyMatchingSentencesReturned ==
    ContextExtracted =>
        LET S     == Sentences(call.content)
            score == TokenScores(S, QueryWords(call.query))
            words == RealQueryTokens(call.query)
        IN  Scoring(score) # {} =>
                /\ call.ret = Join(SelectedInOrder(S, score), <<".", " ">>)
                /\ \A i \in Selected(score) : HasWord(S[i], words)


EndsWith(s, suffix) ==
    /\ Len(s) >= Len(suffix)
    /\ SubSeq(s, Len(s) - Len(suffix) + 1, Len(s)) = suffix

\* The contexts a typed query can retrieve from an uploaded file.
RetrievedContexts ==
    {extractRelevantContext(file.content, q) :
        file \in ChatFiles \cup Files, q \in TypedQueries}

\* The text is the first 200 characters of a retrieved context (the whole
\* of it if it is shorter).
IsExcerpt(text) ==
    \E context \in RetrievedContexts :
        /\ StartsWith(context, text)
        /\ Len(text) = IF Len(context) < 200 THEN Len(context) ELSE 200

\* C14: in every chat history only the 'ai' turns have a context excerpt;
\* each excerpt is at most 200 characters of the retrieved context followed
\* by "..." (at most 203 characters in all); 'user' and 'system' turns have
\* no context field.
C14_ExcerptOnlyOnAiTurns ==
    \A i \in 1..Len(chatHistory) :
        LET turn == chatHistory[i] IN
        IF turn.type = "ai"
        THEN /\ "context" \in DOMAIN turn
             /\ Len(turn.context) <= 203
             /\ EndsWith(turn.context, <<".", ".", ".">>)
             /\ IsExcerpt(SubSeq(turn.context, 1, Len(turn.context) - 3))
        ELSE /\ turn.type \in {"user", "system"}
             /\ "context" \notin DOMAIN turn

\* A chat history with a 'system', a 'user' and an 'ai' turn, the 'ai' turn
\* with an excerpt cut at 200 characters.
C14_Witness ==
    /\ \E i \in 1..Len(chatHistory) : chatHistory[i].type = "system"
    /\ \E i \in 1..Len(chatHistory) : chatHistory[i].type = "user"
    /\ \E i \in 1..Len(chatHistory) :
          /\ chatHistory[i].type = "ai"
          /\ Len(chatHistory[i].context) = 203
          /\ \E context \in RetrievedContexts :
                /\ Len(context) > 200
                /\ StartsWith(context,
                              SubSeq(chatHistory[i].context, 1, 200))


\* The collection after the step is the collection before it with one
\* document more at its end.
OneDocumentAdded ==
    /\ Len(documents') = Len(documents) + 1
    /\ SubSeq(documents', 1, Len(documents)) = documents

\* C15: whatever uploads and deletes came in between, the completion of an
\* upload (reader.onload) adds its document to the collection as it is at
\* that moment: it drops no document added since the upload began and
\* brings back none deleted since, so that the collection is the documents
\* uploaded and not deleted afterwards.
C15_UploadCompletionKeepsCollection ==
    [][\A i \in 1..Len(reads) : readerOnload(i) => OneDocumentAdded]_vars


\* An operation that has set isProcessing has not come to its end: a file
\* is being read, an upload awaits its write, or a query awaits its answer.
OperationPending ==
    \/ reads # <<>>
    \/ \E i \in 1..Len(saves) : saves[i].kind = "upload"
    \/ timers # <<>>

\* C16: isProcessing is true as long as a file read or the delayed answer
\* of a query is outstanding; the end of one operation does not clear it
\* while another is in progress.
C16_ProcessingWhilePending == OperationPending => isProcessing

====
